---- MODULE Spec2Model ----
(***************************************************************************)
(* A model of the FHIR schema graph builder: lib/utilities.py (identifier  *)
(* conversion and truncation), lib/graph.py (rows, fields, nodes, edges,   *)
(* Graph.build_graph, Graph.get_writable_nodes) and lib/fhir_parser.py     *)
(* (ResourceText.nodes, add_nodes_from_pages).                             *)
(*                                                                         *)
(* Strings are sequences of one-character strings, so that the case        *)
(* conversion, the '.'/'_' handling and the 63-character limit are         *)
(* computed as the code computes them.  Python dicts are sequences of      *)
(* [k, v] entries in insertion order; Python objects live in a heap and    *)
(* are referred to by their index.                                         *)
(***************************************************************************)
EXTENDS Integers, Sequences, FiniteSets, TLC

VARIABLES
    \* ---- lib/graph.py, class Graph ----
    heap,           \* every node object created so far (index = identity)
    nodes,          \* Graph._nodes: dict key -> node object
    meta_nodes,     \* Graph._meta_nodes (only its key set is ever read)
    edges,          \* Graph.edges: dict (origin, field, destination) -> Edge
    writable_nodes, \* Graph._writable_nodes, the memo of _get_subnodes
    \* ---- the run of generate_tables.main ----
    pc,             \* position of the run
    multi_added,    \* multi-resource pages read so far, in order
    single_added,   \* single-resource pages read so far, in order
    work,           \* the list a for-loop of build_graph iterates over
    cur,            \* index of that loop
    fcur,           \* index of the inner loop over node.fhir_fields
    triplets,       \* self_referencing_triplets of build_graph
    pairs,          \* source_destination_pairs of build_graph
    err,            \* the exception that ended the run, "" if none
    selection,      \* arguments and result of the last get_writable_nodes
    \* ---- lib/utilities.py, truncate_database_name ----
    t_full,         \* full_name
    t_name,         \* name
    t_parts,        \* name_parts
    t_idx,          \* name_part_abbreviation_index
    t_pc,           \* "idle", "loop", "done" or "raised"
    \* ---- lib/fhir_parser.py, ResourceText.nodes ----
    r_rows,         \* self._rows
    r_i,            \* index of the row the for-loop is at
    r_st,           \* nodes, node_tiers and whether the loop is still running
    r_pc            \* "idle", "loop", "done" or "raised"

graphVars == <<heap, nodes, meta_nodes, edges, writable_nodes, pc, multi_added,
               single_added, work, cur, fcur, triplets, pairs, err, selection>>
truncVars == <<t_full, t_name, t_parts, t_idx, t_pc>>
rowVars == <<r_rows, r_i, r_st, r_pc>>
vars == <<heap, nodes, meta_nodes, edges, writable_nodes, pc, multi_added,
          single_added, work, cur, fcur, triplets, pairs, err, selection,
          t_full, t_name, t_parts, t_idx, t_pc, r_rows, r_i, r_st, r_pc>>

(***************************************************************************)
(* Bounds of the model.                                                    *)
(***************************************************************************)
\* segments of an identifier given to truncate_database_name
MaxSegments == 5
\* pages read by add_nodes_from_pages in one run
MaxPages == 3
\* length of the filter list given to get_writable_nodes
MaxFilter == 2

(***************************************************************************)
(* Characters and strings.                                                 *)
(***************************************************************************)
UpperLetters == <<"A","B","C","D","E","F","G","H","I","J","K","L","M",
                  "N","O","P","Q","R","S","T","U","V","W","X","Y","Z">>
LowerLetters == <<"a","b","c","d","e","f","g","h","i","j","k","l","m",
                  "n","o","p","q","r","s","t","u","v","w","x","y","z">>

IsUpper(c) == \E i \in 1..26 : UpperLetters[i] = c
IsLower(c) == \E i \in 1..26 : LowerLetters[i] = c
Lower(c) == IF IsUpper(c) THEN LowerLetters[CHOOSE i \in 1..26 : UpperLetters[i] = c] ELSE c
Upper(c) == IF IsLower(c) THEN UpperLetters[CHOOSE i \in 1..26 : LowerLetters[i] = c] ELSE c

LowerStr(s) == [i \in 1..Len(s) |-> Lower(s[i])]
Rep(c, n) == [i \in 1..n |-> c]
HasChar(s, c) == \E i \in 1..Len(s) : s[i] = c

RECURSIVE Concat(_)
Concat(ss) == IF ss = <<>> THEN <<>> ELSE Head(ss) \o Concat(Tail(ss))

\* str.split('_')
RECURSIVE Split(_)
Split(s) ==
    IF ~HasChar(s, "_") THEN <<s>>
    ELSE LET i == CHOOSE j \in 1..Len(s) : s[j] = "_" /\ \A k \in 1..(j-1) : s[k] # "_"
         IN <<SubSeq(s, 1, i-1)>> \o Split(SubSeq(s, i+1, Len(s)))

\* '_'.join(parts)
RECURSIVE JoinUnderscore(_)
JoinUnderscore(parts) ==
    IF Len(parts) = 0 THEN <<>>
    ELSE IF Len(parts) = 1 THEN parts[1]
    ELSE parts[1] \o <<"_">> \o JoinUnderscore(Tail(parts))

\* list[:i] and list[i:] for a negative index i
PyPrefix(s, i) == SubSeq(s, 1, Len(s) + i)
PySuffix(s, i) == SubSeq(s, IF Len(s) + i + 1 < 1 THEN 1 ELSE Len(s) + i + 1, Len(s))

(***************************************************************************)
(* lib/utilities.py                                                        *)
(***************************************************************************)
MaxNameLength == 63

\* text[0].upper() + text[1:]; the caller handles the IndexError of ''
capitalize_first_letter(text) == <<Upper(text[1])>> \o Tail(text)

\* re.sub(r'(?<!^)(?=[A-Z])', '_', text).lower().replace('.', '_')
RECURSIVE SnakeFrom(_, _)
SnakeFrom(text, i) ==
    IF i > Len(text) THEN <<>>
    ELSE (IF i > 1 /\ IsUpper(text[i]) THEN <<"_">> ELSE <<>>)
         \o <<IF text[i] = "." THEN "_" ELSE Lower(text[i])>>
         \o SnakeFrom(text, i + 1)

to_snake_case(text) == SnakeFrom(text, 1)

\* the state of truncate_database_name before its loop
TruncStart(full_name) ==
    [name |-> full_name, parts |-> Split(full_name), idx |-> -3, status |-> "loop"]

\* a variant whose loop also runs for a name of exactly the limit
TruncStep_AtLimit(t) ==
    IF Len(t.name) < MaxNameLength THEN [t EXCEPT !.status = "done"]
    ELSE LET init == PyPrefix(t.parts, t.idx)
         IN IF init = <<>> \/ init[Len(init)] = <<>>
            THEN [t EXCEPT !.status = "raised"]
            ELSE LET init2 == [init EXCEPT ![Len(init)] = <<init[Len(init)][1]>>]
                     parts2 == init2 \o PySuffix(t.parts, t.idx)
                 IN IF \E k \in 1..Len(parts2) : parts2[k] = <<>>
                    THEN [t EXCEPT !.parts = parts2, !.idx = t.idx - 1,
                                   !.status = "raised"]
                    ELSE [name |-> to_snake_case(Concat(
                                     [k \in 1..Len(parts2) |-> capitalize_first_letter(parts2[k])])),
                          parts |-> parts2, idx |-> t.idx - 1, status |-> "loop"]
\* one evaluation of the loop condition and, if it holds, of the loop body
TruncStep(t) ==
    IF Len(t.name) <= MaxNameLength THEN [t EXCEPT !.status = "done"]
    ELSE LET init == PyPrefix(t.parts, t.idx)
         IN IF init = <<>> \/ init[Len(init)] = <<>>
            THEN [t EXCEPT !.status = "raised"]   \* IndexError of name_parts_init[-1][0]
            ELSE LET init2 == [init EXCEPT ![Len(init)] = <<init[Len(init)][1]>>]
                     parts2 == init2 \o PySuffix(t.parts, t.idx)
                 IN IF \E k \in 1..Len(parts2) : parts2[k] = <<>>
                    THEN [t EXCEPT !.parts = parts2, !.idx = t.idx - 1,
                                   !.status = "raised"]  \* IndexError of text[0]
                    ELSE [name |-> to_snake_case(Concat(
                                     [k \in 1..Len(parts2) |-> capitalize_first_letter(parts2[k])])),
                          parts |-> parts2, idx |-> t.idx - 1, status |-> "loop"]

RECURSIVE TruncRun(_)
TruncRun(t) == IF t.status = "loop" THEN TruncRun(TruncStep(t)) ELSE t

\* the result of truncate_database_name: ok = FALSE when it raises
truncate_database_name(full_name) ==
    LET t == TruncRun(TruncStart(full_name))
    IN [ok |-> t.status = "done", name |-> t.name]

key_to_database_name(key) == truncate_database_name(to_snake_case(key))

(***************************************************************************)
(* Truncation on its own: the inputs are snake-case identifiers made of    *)
(* one to MaxSegments segments.                                            *)
(***************************************************************************)
Segments == { <<>>, <<"a">>, <<"1", "a">>, Rep("b", 20), Rep("c", 31) }

SegmentLists == UNION { [1..n -> Segments] : n \in 1..MaxSegments }

TruncIdle == /\ t_full = <<>> /\ t_name = <<>> /\ t_parts = <<>>
             /\ t_idx = -3 /\ t_pc = "idle"

RowsIdle == /\ r_rows = <<>> /\ r_i = 1 /\ r_pc = "idle"
            /\ r_st = [nodes |-> << <<>> >>, tiers |-> <<1>>, ok |-> TRUE]

GraphInit ==
    /\ heap = <<>>
    /\ nodes = <<>>
    /\ meta_nodes = {}
    /\ edges = <<>>
    /\ writable_nodes = {}
    /\ pc = "multi"
    /\ multi_added = <<>>
    /\ single_added = <<>>
    /\ work = <<>>
    /\ cur = 1
    /\ fcur = 1
    /\ triplets = <<>>
    /\ pairs = <<>>
    /\ err = ""
    /\ selection = [called |-> FALSE, filter |-> <<>>, ok |-> TRUE, result |-> {}]

InitTrunc ==
    /\ GraphInit
    /\ RowsIdle
    /\ \E segs \in SegmentLists :
          LET t == TruncStart(JoinUnderscore(segs))
          IN /\ t_full = JoinUnderscore(segs)
             /\ t_name = t.name
             /\ t_parts = t.parts
             /\ t_idx = t.idx
             /\ t_pc = "loop"

TruncState == [name |-> t_name, parts |-> t_parts, idx |-> t_idx, status |-> t_pc]

SetTrunc(t) == /\ t_name' = t.name /\ t_parts' = t.parts
               /\ t_idx' = t.idx /\ t_pc' = t.status
               /\ UNCHANGED t_full

\* while len(name) > 63: one more segment is abbreviated
TruncAbbreviate ==
    /\ t_pc = "loop"
    /\ Len(t_name) > MaxNameLength
    /\ TruncStep(TruncState).status = "loop"
    /\ SetTrunc(TruncStep(TruncState))
    /\ UNCHANGED <<graphVars, rowVars>>

\* the loop body raises IndexError
TruncRaise ==
    /\ t_pc = "loop"
    /\ Len(t_name) > MaxNameLength
    /\ TruncStep(TruncState).status = "raised"
    /\ SetTrunc(TruncStep(TruncState))
    /\ UNCHANGED <<graphVars, rowVars>>

\* return name
TruncReturn ==
    /\ t_pc = "loop"
    /\ Len(t_name) <= MaxNameLength
    /\ SetTrunc(TruncStep(TruncState))
    /\ UNCHANGED <<graphVars, rowVars>>

NextTrunc == TruncAbbreviate \/ TruncRaise \/ TruncReturn

SpecTrunc == InitTrunc /\ [][NextTrunc]_vars

(***************************************************************************)
(* C4: truncate_database_name returns normally, with a result of at most   *)
(* 63 characters, for every identifier longer than 63 characters.          *)
(***************************************************************************)
C4_TruncationBound ==
    Len(t_full) > MaxNameLength =>
        /\ t_pc # "raised"
        /\ (t_pc = "done" => Len(t_name) <= MaxNameLength)

(***************************************************************************)
(* Strings of the program and of the modelled input pages.                 *)
(***************************************************************************)
K_Any == <<"A","n","y">>
K_Element == <<"E","l","e","m","e","n","t">>
K_BackboneElement == <<"B","a","c","k","b","o","n","e","E","l","e","m","e","n","t">>
K_Resource == <<"R","e","s","o","u","r","c","e">>
K_Extension == <<"E","x","t","e","n","s","i","o","n">>
F_id == <<"i","d">>
F_extension == <<"e","x","t","e","n","s","i","o","n">>
F_modifierExtension == <<"m","o","d","i","f","i","e","r","E","x","t","e","n","s","i","o","n">>
F_url == <<"u","r","l">>
K_Cl == <<"C","l">>
F_rel == <<"r","e","l">>
F_cl == <<"c","l">>
F_sub == <<"s","u","b">>
F_up == <<"u","p">>
K_Ob == <<"O","b">>
K_Pt == <<"P","t">>
K_Gr == <<"G","r">>
F_val == <<"v","a","l">>
F_xx == <<"x","x">>
F_yy == <<"y","y">>
F_who == <<"w","h","o">>
F_name == <<"n","a","m","e">>
F_ba == <<"b","a">>
F_pa == <<"p","a">>
K_Dr == <<"D","r">>
K_Ch == <<"C","h">>
K_Zz == <<"Z","z">>
K_Cy == <<"C","y">>
F_text == <<"t","e","x","t">>
F_ct == <<"c","t">>
F_st == <<"s","t">>
F_long1 == <<"x","a","B","b","C","c">>
F_long2 == <<"x","b","B","b","C","c">>
S_id == <<"_","i","d">>
S_back == <<"b","a","c","k">>
Dot == <<".">>
K_Long == <<"L">> \o Rep("o", 51)
K_ClRel == K_Cl \o Dot \o F_rel
K_ClRelSub == K_ClRel \o Dot \o F_sub
F_an == <<"a","n">>
F_ca == <<"c","a">>
K_Zr == <<"Z","r">>
F_no == <<"n","o">>
K_ZzQq == K_Zz \o Dot \o <<"q","q">>
K_Ca == <<"C","a">>
K_Cb == <<"C","b">>
K_SX == <<"S","X">>
K_Sr == <<"S","r">>
F_sr == <<"s","r">>
F_mm == <<"m","m">>
F_zz == <<"z","z">>
F_srSub == <<"s","r","S","u","b">>
K_SrSub == K_Sr \o Dot \o F_sub
F_bbCc == <<"b","b","C","c">>
F_hh == <<"h","h">>
K_SXbbCc == K_SX \o Dot \o F_bbCc
F_sxa == <<"s","X">> \o Rep("a", 58) \o <<"B","b","C","c">>
F_sxb == <<"s","X">> \o Rep("b", 58) \o <<"B","b","C","c">>

(***************************************************************************)
(* Python dicts, in insertion order.                                       *)
(***************************************************************************)
DictHas(d, k) == \E i \in 1..Len(d) : d[i].k = k
DictIndex(d, k) == CHOOSE i \in 1..Len(d) : d[i].k = k
DictGet(d, k) == d[DictIndex(d, k)].v
DictPut(d, k, v) ==
    IF DictHas(d, k) THEN [d EXCEPT ![DictIndex(d, k)] = [k |-> k, v |-> v]]
    ELSE Append(d, [k |-> k, v |-> v])
DictKeys(d) == { d[i].k : i \in 1..Len(d) }
Range(s) == { s[i] : i \in 1..Len(s) }

(***************************************************************************)
(* lib/graph.py, class Row: the facts the regular expressions extract from *)
(* one line.  key = <<>> and parent = <<>> stand for "no match".           *)
(***************************************************************************)
KeyRow(key, fkey, cat, names, max) ==
    [key |-> key, fkey |-> fkey, type |-> [cat |-> cat, names |-> names],
     ord |-> <<"0", max>>, opens |-> FALSE, closes |-> FALSE,
     parent |-> <<>>, pfields |-> <<>>]
\* 'fhir:Owner.field [' : a bracket is opened and not closed on the line
OpenRow(key, fkey, max) == [KeyRow(key, fkey, "none", <<>>, max) EXCEPT !.opens = TRUE]
\* '], ...'
CloseRow == [KeyRow(<<>>, <<>>, "none", <<>>, "1") EXCEPT !.closes = TRUE]
\* '# from Parent: .f1, .f2'
ParentRow(parent, pfields) ==
    [KeyRow(<<>>, <<>>, "none", <<>>, "1") EXCEPT !.parent = parent, !.pfields = pfields]

includes_key(row) == row.key # <<>>
includes_parent_element(row) == row.parent # <<>>
RowBool(row) == includes_key(row) \/ includes_parent_element(row)
starts_subnode(row) == row.opens
ends_subnode(row) == row.closes
\* parent_element_fields drops the 'contained' field
K_contained == <<"c","o","n","t","a","i","n","e","d">>
parent_element_fields(row) == SelectSeq(row.pfields, LAMBDA f : f # K_contained)

(***************************************************************************)
(* Fields.  kind is the class: PrimativeField, CodeField, XHTMLField,      *)
(* ExclusiveRelationshipField (one target) or ReferenceRelationshipField.  *)
(* orig is the originating node object.                                    *)
(***************************************************************************)
NoField == [key |-> <<>>, ord |-> <<"0", "0">>, orig |-> 0, kind |-> "None", targets |-> <<>>]
Field(key, ord, orig, kind, targets) ==
    [key |-> key, ord |-> ord, orig |-> orig, kind |-> kind, targets |-> targets]

IsRelationshipField(f) == f.kind \in {"Exclusive", "Reference"}
is_many_to_many(f) == f.ord[2] = "*"
is_max_one(f) == f.ord[2] = "1"
is_polymorphic(f) == f.kind = "Reference" /\ Len(f.targets) > 1

\* Row.as_field; ok = FALSE is the ValueError of an unrecognised type
as_field(row, id) ==
    IF starts_subnode(row)
    THEN [ok |-> TRUE, field |-> Field(row.fkey, row.ord, id, "Exclusive",
                                         <<row.key \o Dot \o row.fkey>>)]
    ELSE CASE row.type.cat = "prim" ->
                [ok |-> TRUE, field |-> Field(row.fkey, row.ord, id, "Primative", <<>>)]
           [] row.type.cat = "code" ->
                [ok |-> TRUE, field |-> Field(row.fkey, row.ord, id, "Code", <<>>)]
           [] row.type.cat = "canonical" ->
                [ok |-> TRUE, field |-> Field(row.fkey, row.ord, id, "Primative", <<>>)]
           [] row.type.cat = "ref" ->
                [ok |-> TRUE, field |-> Field(row.fkey, row.ord, id, "Reference", row.type.names)]
           [] row.type.cat \in {"see", "upper"} ->
                [ok |-> TRUE, field |-> Field(row.fkey, row.ord, id, "Exclusive",
                                              <<row.type.names[1]>>)]
           [] row.type.cat = "xhtml" ->
                [ok |-> TRUE, field |-> Field(row.fkey, row.ord, id, "XHTML", <<>>)]
           [] OTHER -> [ok |-> FALSE, field |-> NoField]

(***************************************************************************)
(* Node objects.                                                           *)
(***************************************************************************)
NoCache == [cached |-> FALSE, val |-> <<>>]
ParsedNode(rows) == [kind |-> "Parsed", key |-> <<>>, rows |-> rows, inherited |-> <<>>,
                     fields |-> NoCache, derived_from |-> 0]
AnyNode == [kind |-> "Any", key |-> K_Any, rows |-> <<>>, inherited |-> <<>>,
            fields |-> NoCache, derived_from |-> 0]
ElementNode == [kind |-> "Element", key |-> K_Element, rows |-> <<>>, inherited |-> <<>>,
                fields |-> NoCache, derived_from |-> 0]
DerivedNode(key, derived_from) ==
    [kind |-> "Derived", key |-> key, rows |-> <<>>, inherited |-> <<>>,
     fields |-> NoCache, derived_from |-> derived_from]

HasKeyRow(rows) == \E i \in 1..Len(rows) : includes_key(rows[i])
\* ParsedNode.key: the key of the first row that has one
ParsedKey(rows) ==
    rows[CHOOSE i \in 1..Len(rows) :
            includes_key(rows[i]) /\ \A j \in 1..(i-1) : ~includes_key(rows[j])].key
NodeKey(n) == IF n.kind = "Parsed" THEN ParsedKey(n.rows) ELSE n.key
is_child_element(n) == HasChar(NodeKey(n), ".")

(***************************************************************************)
(* lib/fhir_parser.py, ResourceText.nodes: nodes are the row lists of the  *)
(* ParsedNodes created, tiers is the stack node_tiers (indices into nodes).*)
(***************************************************************************)
NodesStep(st, row) ==
    IF ~st.ok THEN st
    ELSE IF ends_subnode(row)
    THEN IF st.tiers = <<>> THEN [st EXCEPT !.ok = FALSE]      \* pop from empty list
         ELSE [st EXCEPT !.tiers = SubSeq(@, 1, Len(@) - 1)]
    ELSE IF ~RowBool(row) THEN st
    ELSE IF st.tiers = <<>> THEN [st EXCEPT !.ok = FALSE]      \* node_tiers[-1]
    ELSE LET top == st.tiers[Len(st.tiers)]
             appended == [st EXCEPT !.nodes[top] = Append(@, row)]
         IN IF starts_subnode(row)
            THEN [appended EXCEPT !.nodes = Append(@, <<>>),
                                  !.tiers = Append(@, Len(appended.nodes) + 1)]
            ELSE appended

RECURSIVE NodesFold(_, _, _)
NodesFold(st, rows, i) ==
    IF i > Len(rows) THEN st ELSE NodesFold(NodesStep(st, rows[i]), rows, i + 1)

ResourceNodes(rows) == NodesFold([nodes |-> << <<>> >>, tiers |-> <<1>>, ok |-> TRUE], rows, 1)

(***************************************************************************)
(* The loop of ResourceText.nodes, one row per step, over bounded row      *)
(* sequences whose brackets are balanced.                                  *)
(***************************************************************************)
MaxRows == 5
\* '[ a fhir:Xx;' : a bracket is opened by a line that declares nothing
BareOpenRow == [KeyRow(<<>>, <<>>, "none", <<>>, "1") EXCEPT !.opens = TRUE]
\* a line without declaration and without bracket
BlankRow == KeyRow(<<>>, <<>>, "none", <<>>, "1")
RowShapes == {"field", "open", "bare", "close", "blank"}
K_Xx == <<"X","x">>
FieldLetters == <<"a","b","c","d","e","f","g","h">>

\* the rows of a page with the given line shapes; owners is the stack of the
\* entities the open brackets belong to (a bare bracket keeps the entity)
RECURSIVE RowsOfShapes(_, _, _)
RowsOfShapes(shapes, i, owners) ==
    IF i > Len(shapes) THEN <<>>
    ELSE LET top == owners[Len(owners)]
             f == <<FieldLetters[i]>>
         IN CASE shapes[i] = "field" ->
                   <<KeyRow(top, f, "prim", <<>>, "1")>> \o RowsOfShapes(shapes, i + 1, owners)
              [] shapes[i] = "open" ->
                   <<OpenRow(top, f, "*")>>
                       \o RowsOfShapes(shapes, i + 1, Append(owners, top \o Dot \o f))
              [] shapes[i] = "bare" ->
                   <<BareOpenRow>> \o RowsOfShapes(shapes, i + 1, Append(owners, top))
              [] shapes[i] = "close" ->
                   <<CloseRow>> \o RowsOfShapes(shapes, i + 1, SubSeq(owners, 1, Len(owners) - 1))
              [] OTHER -> <<BlankRow>> \o RowsOfShapes(shapes, i + 1, owners)

\* number of brackets open after the first i lines
RECURSIVE Depth(_, _)
Depth(shapes, i) ==
    IF i = 0 THEN 0
    ELSE Depth(shapes, i - 1)
           + (IF shapes[i] \in {"open", "bare"} THEN 1 ELSE IF shapes[i] = "close" THEN -1 ELSE 0)

Balanced(shapes) ==
    /\ \A i \in 1..Len(shapes) : Depth(shapes, i) >= 0
    /\ Depth(shapes, Len(shapes)) = 0

BalancedShapes ==
    { sh \in UNION { [1..n -> RowShapes] : n \in 1..MaxRows } : Balanced(sh) }

InitRows ==
    /\ GraphInit
    /\ TruncIdle
    /\ \E sh \in BalancedShapes : r_rows = RowsOfShapes(sh, 1, <<K_Xx>>)
    /\ r_i = 1
    /\ r_st = [nodes |-> << <<>> >>, tiers |-> <<1>>, ok |-> TRUE]
    /\ r_pc = "loop"

RowsAdvance(st) ==
    /\ r_st' = st
    /\ r_i' = r_i + 1
    /\ r_pc' = IF st.ok THEN "loop" ELSE "raised"
    /\ UNCHANGED <<r_rows, graphVars, truncVars>>

\* if row.ends_subnode: node_tiers.pop(); continue
RowsEndSubnode ==
    /\ r_pc = "loop" /\ r_i <= Len(r_rows)
    /\ ends_subnode(r_rows[r_i])
    /\ RowsAdvance(NodesStep(r_st, r_rows[r_i]))

\* if not row: continue
RowsSkip ==
    /\ r_pc = "loop" /\ r_i <= Len(r_rows)
    /\ ~ends_subnode(r_rows[r_i]) /\ ~RowBool(r_rows[r_i])
    /\ RowsAdvance(NodesStep(r_st, r_rows[r_i]))

\* node_tiers[-1].append_row(row), and the push when the row starts a subnode
RowsAppend ==
    /\ r_pc = "loop" /\ r_i <= Len(r_rows)
    /\ ~ends_subnode(r_rows[r_i]) /\ RowBool(r_rows[r_i])
    /\ RowsAdvance(NodesStep(r_st, r_rows[r_i]))

\* return nodes
RowsReturn ==
    /\ r_pc = "loop" /\ r_i > Len(r_rows)
    /\ r_pc' = "done"
    /\ UNCHANGED <<r_rows, r_i, r_st, graphVars, truncVars>>

NextRows == RowsEndSubnode \/ RowsSkip \/ RowsAppend \/ RowsReturn

SpecRows == InitRows /\ [][NextRows]_vars

(***************************************************************************)
(* The state of the run as one value, so that every operation is a         *)
(* function from state to state.                                           *)
(***************************************************************************)
G == [heap |-> heap, nodes |-> nodes, meta_nodes |-> meta_nodes, edges |-> edges,
      writable_nodes |-> writable_nodes, pc |-> pc, multi_added |-> multi_added,
      single_added |-> single_added, work |-> work, cur |-> cur, fcur |-> fcur,
      triplets |-> triplets, pairs |-> pairs, err |-> err, selection |-> selection]

Apply(g) ==
    /\ heap' = g.heap
    /\ nodes' = g.nodes
    /\ meta_nodes' = g.meta_nodes
    /\ edges' = g.edges
    /\ writable_nodes' = g.writable_nodes
    /\ pc' = g.pc
    /\ multi_added' = g.multi_added
    /\ single_added' = g.single_added
    /\ work' = g.work
    /\ cur' = g.cur
    /\ fcur' = g.fcur
    /\ triplets' = g.triplets
    /\ pairs' = g.pairs
    /\ err' = g.err
    /\ selection' = g.selection

EmptyGraph ==
    [heap |-> <<>>, nodes |-> <<>>, meta_nodes |-> {}, edges |-> <<>>,
     writable_nodes |-> {}, pc |-> "multi", multi_added |-> <<>>,
     single_added |-> <<>>, work |-> <<>>, cur |-> 1, fcur |-> 1,
     triplets |-> <<>>, pairs |-> <<>>, err |-> "",
     selection |-> [called |-> FALSE, filter |-> <<>>, ok |-> TRUE, result |-> {}]]

\* an exception: every error of the core is fatal to the run
Raise(g, e) == [g EXCEPT !.pc = "error", !.err = e]

NodeOf(g, key) == g.heap[DictGet(g.nodes, key)]
KeyOf(g, id) == NodeKey(g.heap[id])
NodeIds(g) == [i \in 1..Len(g.nodes) |-> g.nodes[i].v]

\* Graph.add_node
add_node(g, obj) ==
    IF obj.kind = "Parsed" /\ ~HasKeyRow(obj.rows) THEN Raise(g, "ValueError")
    ELSE IF DictHas(g.nodes, NodeKey(obj)) THEN Raise(g, "BaseException")
    ELSE [g EXCEPT !.heap = Append(@, obj),
                   !.nodes = DictPut(@, NodeKey(obj), Len(g.heap) + 1)]

(***************************************************************************)
(* The pages of the modelled site.  A page is a list of resource blocks,   *)
(* a block is the list of rows of one resource.                            *)
(***************************************************************************)
ExtensionBlock ==
    << ParentRow(K_Element, <<F_extension>>),
       KeyRow(K_Extension, F_url, "prim", <<>>, "1") >>
BackboneBlock ==
    << ParentRow(K_Element, <<F_extension>>),
       KeyRow(K_BackboneElement, F_modifierExtension, "upper", <<K_Extension>>, "*") >>
ElementBlock ==
    << KeyRow(K_Element, F_id, "prim", <<>>, "1") >>

\* a resource with a backbone subnode, a nested subnode and a 'See' cycle
ClBlock ==
    << OpenRow(K_Cl, F_rel, "*"),
         KeyRow(K_ClRel, F_cl, "ref", <<K_Cl>>, "1"),
         OpenRow(K_ClRel, F_sub, "1"),
           KeyRow(K_ClRelSub, F_up, "see", <<K_ClRel>>, "1"),
         CloseRow,
       CloseRow >>
\* a many-valued polymorphic reference that names its owner, and xx -> Pt
ObBlock ==
    << KeyRow(K_Ob, F_val, "ref", <<K_Ob, K_Gr>>, "*"),
       KeyRow(K_Ob, F_xx, "ref", <<K_Pt>>, "1") >>
\* a single-valued polymorphic reference, and two many-valued ones to Ob
PtBlock ==
    << KeyRow(K_Pt, F_who, "ref", <<K_Ob, K_Gr>>, "1"),
       KeyRow(K_Pt, F_xx, "ref", <<K_Ob>>, "*"),
       KeyRow(K_Pt, F_yy, "ref", <<K_Ob>>, "*") >>
\* three many-valued relations of an entity to itself, and a Reference(Any)
GrBlock ==
    << KeyRow(K_Gr, F_name, "prim", <<>>, "1"),
       KeyRow(K_Gr, F_ba, "ref", <<K_Gr>>, "*"),
       KeyRow(K_Gr, F_pa, "ref", <<K_Gr>>, "*"),
       KeyRow(K_Gr, F_ca, "ref", <<K_Gr>>, "*"),
       KeyRow(K_Gr, F_an, "ref", <<K_Any>>, "*") >>
\* the same with names that exceed the identifier limit once qualified
LongBlock ==
    << KeyRow(K_Long, F_long1, "ref", <<K_Long>>, "*"),
       KeyRow(K_Long, F_long2, "ref", <<K_Long>>, "*") >>
\* a parent entity with a 'See' field whose target is on no page
DrBlock ==
    << ParentRow(K_Element, <<F_id>>),
       KeyRow(K_Dr, F_text, "xhtml", <<>>, "1"),
       KeyRow(K_Dr, F_ct, "see", <<K_ZzQq>>, "*") >>
\* a child of Dr
ChBlock ==
    << ParentRow(K_Dr, <<F_text, F_id, K_contained>>),
       KeyRow(K_Ch, F_st, "code", <<>>, "1") >>
\* an entity that names itself as its parent
CyBlock ==
    << ParentRow(K_Cy, <<F_id>>),
       KeyRow(K_Cy, F_id, "prim", <<>>, "1") >>
\* a reference with one target and the maximum 0
ZrBlock ==
    << KeyRow(K_Zr, F_no, "ref", <<K_Gr>>, "0") >>
\* two long single-valued fields naming a subnode that refers back many-valued
SXBlock ==
    << OpenRow(K_SX, F_bbCc, "*"),
       KeyRow(K_SXbbCc, F_hh, "ref", <<K_SX>>, "*"),
       CloseRow,
       KeyRow(K_SX, F_sxa, "see", <<K_SXbbCc>>, "1"),
       KeyRow(K_SX, F_sxb, "see", <<K_SXbbCc>>, "1") >>
\* a single-valued next to a many-valued self-reference, and a single-valued
\* field named like the subnode that refers back many-valued
SrBlock ==
    << KeyRow(K_Sr, F_sr, "ref", <<K_Sr>>, "1"),
       KeyRow(K_Sr, F_mm, "ref", <<K_Sr>>, "*"),
       OpenRow(K_Sr, F_sub, "*"),
       KeyRow(K_SrSub, F_zz, "ref", <<K_Sr>>, "*"),
       CloseRow,
       KeyRow(K_Sr, F_srSub, "ref", <<K_Sr>>, "1") >>
\* two entities that name each other as parent
CaBlock ==
    << ParentRow(K_Cb, <<F_id>>),
       KeyRow(K_Ca, F_id, "prim", <<>>, "1") >>
CbBlock ==
    << ParentRow(K_Ca, <<F_id>>),
       KeyRow(K_Cb, F_id, "prim", <<>>, "1") >>

MultiPages == << <<ExtensionBlock, BackboneBlock>>, <<ElementBlock>>, <<CaBlock, CbBlock>> >>
SinglePages == << <<ClBlock>>, <<ObBlock>>, <<PtBlock>>, <<GrBlock>>,
                  <<LongBlock>>, <<DrBlock>>, <<ChBlock>>, <<CyBlock>>, <<ZrBlock>>,
                  <<SXBlock>>, <<SrBlock>> >>

(***************************************************************************)
(* lib/fhir_parser.py, add_nodes_from_pages.                               *)
(***************************************************************************)
RECURSIVE AddNodes(_, _, _)
AddNodes(g, ns, i) ==
    IF g.pc = "error" \/ i > Len(ns) THEN g
    ELSE AddNodes(add_node(g, ParsedNode(ns[i])), ns, i + 1)

RECURSIVE AddBlocks(_, _, _)
AddBlocks(g, blocks, i) ==
    IF g.pc = "error" \/ i > Len(blocks) THEN g
    ELSE LET rn == ResourceNodes(blocks[i])
         IN AddBlocks(IF rn.ok THEN AddNodes(g, rn.nodes, 1) ELSE Raise(g, "IndexError"),
                      blocks, i + 1)

\* one iteration of the loop over multiresource_paths
AddMultiPageOp(g, p) ==
    AddBlocks([g EXCEPT !.multi_added = Append(@, p)], MultiPages[p], 1)
\* one iteration of the loop over paths
AddSinglePageOp(g, p) ==
    AddBlocks([g EXCEPT !.single_added = Append(@, p)], SinglePages[p], 1)

AddMultiPage(p) ==
    /\ pc = "multi"
    /\ p \notin Range(multi_added)
    /\ Len(multi_added) < MaxPages
    /\ Apply(AddMultiPageOp(G, p))
    /\ UNCHANGED <<truncVars, rowVars>>

\* the first loop is over; the resource list is read
EndMultiPages ==
    /\ pc = "multi"
    /\ Apply([G EXCEPT !.pc = "single"])
    /\ UNCHANGED <<truncVars, rowVars>>

AddSinglePage(p) ==
    /\ pc = "single"
    /\ p \notin Range(single_added)
    /\ Len(multi_added) + Len(single_added) < MaxPages
    /\ Apply(AddSinglePageOp(G, p))
    /\ UNCHANGED <<truncVars, rowVars>>

(***************************************************************************)
(* lib/graph.py: field sets of nodes.                                      *)
(***************************************************************************)
\* ElementNode.fhir_fields
ElementFields(id) ==
    << [k |-> F_id, v |-> Field(F_id, <<"0", "1">>, id, "Primative", <<>>)],
       [k |-> F_extension,
        v |-> Field(F_extension, <<"0", "*">>, id, "Exclusive", <<K_Extension>>)] >>

RECURSIVE FieldsFromRows(_, _, _, _)
FieldsFromRows(acc, rows, i, id) ==
    IF ~acc.ok \/ i > Len(rows) THEN acc
    ELSE IF ~includes_key(rows[i]) THEN FieldsFromRows(acc, rows, i + 1, id)
    ELSE LET r == as_field(rows[i], id)
         IN FieldsFromRows([ok |-> r.ok,
                            val |-> IF r.ok THEN DictPut(acc.val, r.field.key, r.field)
                                    ELSE acc.val],
                           rows, i + 1, id)

\* ParsedNode.fhir_fields, computed: the inherited fields first, then the
\* fields of the node's own rows, which override them
ComputeFhirFields(obj, id) ==
    FieldsFromRows([ok |-> TRUE, val |-> obj.inherited], obj.rows, 1, id)

\* the first read of the cached property ParsedNode.fhir_fields
EnsureFields(g, id) ==
    IF g.heap[id].kind # "Parsed" \/ g.heap[id].fields.cached THEN g
    ELSE LET r == ComputeFhirFields(g.heap[id], id)
         IN IF r.ok THEN [g EXCEPT !.heap[id].fields = [cached |-> TRUE, val |-> r.val]]
            ELSE Raise(g, "ValueError")

\* node.fhir_fields once it has been read
FieldsOf(g, id) ==
    IF g.heap[id].kind = "Element" THEN ElementFields(id) ELSE g.heap[id].fields.val

\* fhir_fields_by_lower_key[name.lower()]: of two keys that agree in lower
\* case the later one is kept
LowerMatches(fields, name) ==
    { i \in 1..Len(fields) : LowerStr(fields[i].k) = LowerStr(name) }
LowerGet(fields, name) ==
    fields[CHOOSE i \in LowerMatches(fields, name) :
              \A j \in LowerMatches(fields, name) : j <= i].v

RECURSIVE InheritedKeysFold(_, _, _)
InheritedKeysFold(acc, rows, i) ==
    IF i > Len(rows) THEN acc
    ELSE IF ~includes_parent_element(rows[i]) THEN InheritedKeysFold(acc, rows, i + 1)
    ELSE InheritedKeysFold(DictPut(acc, rows[i].parent, parent_element_fields(rows[i])),
                           rows, i + 1)

\* ParsedNode._inherited_field_keys
inherited_field_keys(obj) ==
    LET declared == InheritedKeysFold(<<>>, obj.rows, 1)
    IN IF is_child_element(obj)
       THEN DictPut(declared, K_BackboneElement, <<F_extension, F_modifierExtension>>)
       ELSE declared

\* Graph.add_meta_node
add_meta_node(g, key) ==
    IF key = K_Resource THEN g ELSE [g EXCEPT !.meta_nodes = @ \cup {key}]

(***************************************************************************)
(* ParsedNode.add_inherited_fields.  chain is the set of nodes whose call  *)
(* is on the stack: a call for one of them never returns (RecursionError). *)
(***************************************************************************)
\* a variant that keeps the inherited fields in a list
PutInherited_Append(inherited, f, id) ==
    Append(inherited, [k |-> f.key, v |-> [f EXCEPT !.orig = id]])
\* self._inherited_fields[inherited_field.key] = the copy, originating here
PutInherited(inherited, f, id) == DictPut(inherited, f.key, [f EXCEPT !.orig = id])

RECURSIVE CopyParentFields(_, _, _, _, _)
CopyParentFields(g, id, pid, names, i) ==
    IF g.pc = "error" \/ i > Len(names) THEN g
    ELSE LET g1 == EnsureFields(g, pid)
         IN IF g1.pc = "error" THEN g1
            ELSE IF LowerMatches(FieldsOf(g1, pid), names[i]) = {} THEN Raise(g1, "KeyError")
            ELSE LET inherited_field == LowerGet(FieldsOf(g1, pid), names[i])
                 IN CopyParentFields(
                        [g1 EXCEPT !.heap[id].inherited = PutInherited(@, inherited_field, id)],
                        id, pid, names, i + 1)

RECURSIVE add_inherited_fields(_, _, _)
RECURSIVE InheritFromParents(_, _, _, _, _)
InheritFromParents(g, id, ikeys, p, chain) ==
    IF g.pc = "error" \/ p > Len(ikeys) THEN g
    ELSE IF ~DictHas(g.nodes, ikeys[p].k) THEN Raise(g, "KeyError")
    ELSE LET pid == DictGet(g.nodes, ikeys[p].k)
             parent == g.heap[pid]
         IN IF parent.kind \notin {"Parsed", "Element"} THEN Raise(g, "ValueError")
            ELSE LET g1 == add_meta_node(g, NodeKey(parent))
                     g2 == IF parent.kind = "Parsed"
                           THEN add_inherited_fields(g1, pid, chain)
                           ELSE g1
                 IN InheritFromParents(CopyParentFields(g2, id, pid, ikeys[p].v, 1),
                                       id, ikeys, p + 1, chain)

add_inherited_fields(g, id, chain) ==
    IF id \in chain THEN Raise(g, "RecursionError")
    ELSE InheritFromParents(g, id, inherited_field_keys(g.heap[id]), 1, chain \cup {id})

(***************************************************************************)
(* Edges.                                                                  *)
(***************************************************************************)
Edge(orig, field, dest) ==
    [orig |-> orig, field |-> field, dest |-> dest,
     self_referencing_back_reference |-> FALSE, shares_references |-> FALSE]

\* Edge.key
EdgeKey(g, e) == <<KeyOf(g, e.orig), e.field.key, KeyOf(g, e.dest)>>

\* Edge.is_back_reference
is_back_reference(g, e) ==
    IF e.field.kind = "Reference" THEN KeyOf(g, e.dest) \in Range(e.field.targets)
    ELSE IF e.field.kind = "Exclusive" THEN KeyOf(g, e.dest) = e.field.targets[1]
    ELSE FALSE

\* Edge._base_column_name; ok = FALSE is its ValueError
base_column_name(g, e) ==
    IF e.field.kind = "None" THEN [ok |-> TRUE, name |-> KeyOf(g, e.dest)]
    ELSE IF e.shares_references
    THEN [ok |-> TRUE, name |-> KeyOf(g, e.dest) \o Dot \o e.field.key]
    ELSE IF e.self_referencing_back_reference
    THEN [ok |-> TRUE, name |-> S_back \o KeyOf(g, e.dest)]
    ELSE IF e.field.ord[2] = "*" THEN [ok |-> TRUE, name |-> KeyOf(g, e.dest)]
    ELSE IF is_polymorphic(e.field)
    THEN [ok |-> TRUE, name |-> IF g.heap[e.orig].kind = "Parsed" THEN e.field.key
                                ELSE KeyOf(g, e.dest)]
    ELSE IF e.field.ord[2] = "1" THEN [ok |-> TRUE, name |-> e.field.key]
    ELSE [ok |-> FALSE, name |-> <<>>]

\* Edge.column_name; ok = FALSE when computing it raises
column_name(g, e) ==
    LET b == base_column_name(g, e)
    IN IF b.ok THEN key_to_database_name(b.name \o S_id) ELSE [ok |-> FALSE, name |-> <<>>]

\* Graph._add_edge
\* a variant that stores every edge as a new entry
add_edge_Append(g, e) == [g EXCEPT !.edges = Append(@, [k |-> EdgeKey(g, e), v |-> e])]
add_edge(g, e) == [g EXCEPT !.edges = DictPut(@, EdgeKey(g, e), e)]

(***************************************************************************)
(* Graph.build_graph                                                       *)
(***************************************************************************)
\* Graph._parsed_nodes
ParsedNodes(g) == SelectSeq(NodeIds(g), LAMBDA id : g.heap[id].kind = "Parsed")
\* Graph._concrete_parsed_nodes
ConcreteParsedNodes(g) ==
    SelectSeq(NodeIds(g), LAMBDA id : g.heap[id].kind = "Parsed"
                                      /\ KeyOf(g, id) \notin g.meta_nodes)

\* the two built-in nodes are stored, then the first loop starts
BuildStartOp(g) ==
    LET g1 == [g EXCEPT !.heap = Append(@, AnyNode),
                        !.nodes = DictPut(@, K_Any, Len(g.heap) + 1)]
        g2 == [g1 EXCEPT !.heap = Append(@, ElementNode),
                         !.nodes = DictPut(@, K_Element, Len(g1.heap) + 1)]
    IN [g2 EXCEPT !.work = ParsedNodes(g2), !.cur = 1, !.pc = "inherit"]

\* for node in self._parsed_nodes: node.add_inherited_fields(graph=self)
InheritStepOp(g) ==
    LET g1 == add_inherited_fields(g, g.work[g.cur], {})
    IN IF g1.pc = "error" THEN g1 ELSE [g1 EXCEPT !.cur = @ + 1]

InheritDoneOp(g) == [g EXCEPT !.work = ConcreteParsedNodes(g), !.cur = 1, !.pc = "any"]

\* the edge from the wildcard node to a concrete parsed node
AnyEdgeStepOp(g) ==
    [add_edge(g, Edge(DictGet(g.nodes, K_Any), NoField, g.work[g.cur])) EXCEPT !.cur = @ + 1]

AnyEdgesDoneOp(g) ==
    [g EXCEPT !.work = ConcreteParsedNodes(g), !.cur = 1, !.fcur = 1, !.pc = "fields"]

RECURSIVE AddTargetEdges(_, _, _, _)
AddTargetEdges(g, did, f, i) ==
    IF g.pc = "error" \/ i > Len(f.targets) THEN g
    ELSE IF ~DictHas(g.nodes, f.targets[i]) THEN Raise(g, "KeyError")
    ELSE AddTargetEdges(add_edge(g, Edge(did, f, DictGet(g.nodes, f.targets[i]))),
                        did, f, i + 1)

\* a variant that passes over a field whose destination is not in the graph
FieldEdgesOp_SkipMissing(g, id, f) ==
    IF f.kind = "Exclusive" \/ ((is_max_one(f) \/ is_many_to_many(f)) /\ ~is_polymorphic(f))
    THEN IF ~DictHas(g.nodes, f.targets[1]) THEN g
         ELSE IF is_max_one(f)
         THEN add_edge(g, Edge(id, f, DictGet(g.nodes, f.targets[1])))
         ELSE add_edge(g, Edge(DictGet(g.nodes, f.targets[1]), f, id))
    ELSE LET derived_node_key == KeyOf(g, id) \o Dot \o f.key
             did == Len(g.heap) + 1
             g1 == [g EXCEPT !.heap = Append(@, DerivedNode(derived_node_key, id)),
                             !.nodes = DictPut(@, derived_node_key, did)]
             g2 == AddTargetEdges(g1, did, f, 1)
         IN IF g2.pc = "error" THEN g2
            ELSE IF is_max_one(f) THEN add_edge(g2, Edge(id, f, did))
            ELSE add_edge(g2, Edge(did, f, id))
\* the body of the loop over node.fhir_fields for a relationship field
FieldEdgesOp(g, id, f) ==
    IF f.kind = "Exclusive" \/ ((is_max_one(f) \/ is_many_to_many(f)) /\ ~is_polymorphic(f))
    THEN IF ~DictHas(g.nodes, f.targets[1]) THEN Raise(g, "KeyError")
         ELSE IF is_max_one(f)
         THEN add_edge(g, Edge(id, f, DictGet(g.nodes, f.targets[1])))
         ELSE add_edge(g, Edge(DictGet(g.nodes, f.targets[1]), f, id))
    ELSE LET derived_node_key == KeyOf(g, id) \o Dot \o f.key
             did == Len(g.heap) + 1
             g1 == [g EXCEPT !.heap = Append(@, DerivedNode(derived_node_key, id)),
                             !.nodes = DictPut(@, derived_node_key, did)]
             g2 == AddTargetEdges(g1, did, f, 1)
         IN IF g2.pc = "error" THEN g2
            ELSE IF is_max_one(f) THEN add_edge(g2, Edge(id, f, did))
            ELSE add_edge(g2, Edge(did, f, id))

\* the fields of the node the third loop is at
CurFields(g) == FieldsOf(EnsureFields(g, g.work[g.cur]), g.work[g.cur])

\* one step of "for node in self._concrete_parsed_nodes: for field in ..."
FieldsStepOp(g) ==
    LET id == g.work[g.cur]
        g1 == EnsureFields(g, id)
    IN IF g1.pc = "error" THEN g1
       ELSE IF g.fcur > Len(FieldsOf(g1, id)) THEN [g1 EXCEPT !.cur = @ + 1, !.fcur = 1]
       ELSE IF ~IsRelationshipField(FieldsOf(g1, id)[g.fcur].v) THEN [g1 EXCEPT !.fcur = @ + 1]
       ELSE LET g2 == FieldEdgesOp(g1, id, FieldsOf(g1, id)[g.fcur].v)
            IN IF g2.pc = "error" THEN g2 ELSE [g2 EXCEPT !.fcur = @ + 1]

FieldEdgesDoneOp(g) == [g EXCEPT !.cur = 1, !.triplets = <<>>, !.pc = "selfref"]

SetFlag(g, key, flag) ==
    IF flag = "self"
    THEN [g EXCEPT !.edges[DictIndex(g.edges, key)].v.self_referencing_back_reference = TRUE]
    ELSE [g EXCEPT !.edges[DictIndex(g.edges, key)].v.shares_references = TRUE]

\* one iteration of the loop that finds self referencing back references
SelfRefStepOp(g) ==
    LET key == g.edges[g.cur].k
        edge == g.edges[g.cur].v
        col == column_name(g, edge)
        triplet_key == <<key[1], col.name, key[3]>>
    IN IF ~col.ok THEN Raise(g, "ColumnNameError")
       ELSE IF DictHas(g.triplets, triplet_key)
              /\ is_back_reference(g, edge)
              /\ ~is_back_reference(g, DictGet(g.edges, DictGet(g.triplets, triplet_key)))
       THEN [SetFlag(g, key, "self") EXCEPT !.cur = @ + 1]
       ELSE IF DictHas(g.triplets, triplet_key)
              /\ is_back_reference(g, DictGet(g.edges, DictGet(g.triplets, triplet_key)))
              /\ ~is_back_reference(g, edge)
       THEN [SetFlag(g, DictGet(g.triplets, triplet_key), "self") EXCEPT !.cur = @ + 1]
       ELSE [g EXCEPT !.triplets = DictPut(@, triplet_key, key), !.cur = @ + 1]

SelfRefDoneOp(g) == [g EXCEPT !.cur = 1, !.pairs = <<>>, !.pc = "shared"]

\* one iteration of the loop that finds edges sharing their two nodes
\* a variant that flags an edge whether or not its pair was seen before
SharedStepOp_Unpaired(g) ==
    LET key == g.edges[g.cur].k
        edge == g.edges[g.cur].v
        pair_key == <<key[1], key[3]>>
    IN IF (edge.field.kind # "None" /\ ~is_many_to_many(edge.field))
          \/ edge.self_referencing_back_reference
       THEN [g EXCEPT !.cur = @ + 1]
       ELSE IF DictHas(g.pairs, pair_key)
       THEN [SetFlag(SetFlag(g, key, "shared"), DictGet(g.pairs, pair_key), "shared")
                EXCEPT !.cur = @ + 1]
       ELSE [SetFlag(g, key, "shared")
                EXCEPT !.pairs = DictPut(@, pair_key, key), !.cur = @ + 1]
\* a variant that flags the later edge of a pair only
SharedStepOp_LaterOnly(g) ==
    LET key == g.edges[g.cur].k
        edge == g.edges[g.cur].v
        pair_key == <<key[1], key[3]>>
    IN IF (edge.field.kind # "None" /\ ~is_many_to_many(edge.field))
          \/ edge.self_referencing_back_reference
       THEN [g EXCEPT !.cur = @ + 1]
       ELSE IF DictHas(g.pairs, pair_key)
       THEN [SetFlag(g, key, "shared") EXCEPT !.cur = @ + 1]
       ELSE [g EXCEPT !.pairs = DictPut(@, pair_key, key), !.cur = @ + 1]
SharedStepOp(g) ==
    LET key == g.edges[g.cur].k
        edge == g.edges[g.cur].v
        pair_key == <<key[1], key[3]>>
    IN IF (edge.field.kind # "None" /\ ~is_many_to_many(edge.field))
          \/ edge.self_referencing_back_reference
       THEN [g EXCEPT !.cur = @ + 1]
       ELSE IF DictHas(g.pairs, pair_key)
       THEN [SetFlag(SetFlag(g, key, "shared"), DictGet(g.pairs, pair_key), "shared")
                EXCEPT !.cur = @ + 1]
       ELSE [g EXCEPT !.pairs = DictPut(@, pair_key, key), !.cur = @ + 1]

SharedDoneOp(g) == [g EXCEPT !.cur = 1, !.pc = "done"]

\* the next step of build_graph, whatever it is
BuildStepOp(g) ==
    CASE g.pc = "inherit" -> IF g.cur <= Len(g.work) THEN InheritStepOp(g) ELSE InheritDoneOp(g)
      [] g.pc = "any" -> IF g.cur <= Len(g.work) THEN AnyEdgeStepOp(g) ELSE AnyEdgesDoneOp(g)
      [] g.pc = "fields" -> IF g.cur <= Len(g.work) THEN FieldsStepOp(g) ELSE FieldEdgesDoneOp(g)
      [] g.pc = "selfref" -> IF g.cur <= Len(g.edges) THEN SelfRefStepOp(g) ELSE SelfRefDoneOp(g)
      [] g.pc = "shared" -> IF g.cur <= Len(g.edges) THEN SharedStepOp(g) ELSE SharedDoneOp(g)
      [] OTHER -> g

RECURSIVE RunBuild(_)
RunBuild(g) == IF g.pc \in {"done", "error"} THEN g ELSE RunBuild(BuildStepOp(g))

(***************************************************************************)
(* Graph.get_writable_nodes.  Node sets are sets of keys: Node.__eq__ and  *)
(* Node.__hash__ use the key only.                                         *)
(***************************************************************************)
RelationshipFields(fields) ==
    SelectSeq([i \in 1..Len(fields) |-> fields[i].v], IsRelationshipField)

RECURSIVE get_subnodes(_, _)
RECURSIVE SubnodesFold(_, _, _)
SubnodesFold(acc, fields, i) ==
    IF acc.g.pc = "error" \/ i > Len(fields) THEN acc
    ELSE IF fields[i].kind # "Exclusive" \/ ~HasChar(fields[i].targets[1], ".")
    THEN SubnodesFold(acc, fields, i + 1)
    ELSE IF ~DictHas(acc.g.nodes, fields[i].targets[1])
    THEN [g |-> Raise(acc.g, "KeyError"), nodes |-> acc.nodes]
    ELSE LET r == get_subnodes(acc.g, DictGet(acc.g.nodes, fields[i].targets[1]))
         IN SubnodesFold([g |-> r.g,
                          nodes |-> acc.nodes \cup r.nodes \cup {fields[i].targets[1]}],
                         fields, i + 1)

\* a variant that stops at the subnodes the node names itself
get_subnodes_Shallow(g, id) ==
    IF g.heap[id].kind # "Parsed" THEN [g |-> g, nodes |-> {}]
    ELSE IF KeyOf(g, id) \in g.writable_nodes THEN [g |-> g, nodes |-> {}]
    ELSE LET g1 == EnsureFields([g EXCEPT !.writable_nodes = @ \cup {KeyOf(g, id)}], id)
         IN IF g1.pc = "error" THEN [g |-> g1, nodes |-> {}]
            ELSE [g |-> g1,
                  nodes |-> { f.targets[1] :
                                f \in { h \in Range(RelationshipFields(FieldsOf(g1, id))) :
                                          h.kind = "Exclusive" /\ HasChar(h.targets[1], ".") } }]
\* Graph._get_subnodes
get_subnodes(g, id) ==
    IF g.heap[id].kind # "Parsed" THEN [g |-> g, nodes |-> {}]
    ELSE IF KeyOf(g, id) \in g.writable_nodes THEN [g |-> g, nodes |-> {}]
    ELSE LET g1 == EnsureFields([g EXCEPT !.writable_nodes = @ \cup {KeyOf(g, id)}], id)
         IN IF g1.pc = "error" THEN [g |-> g1, nodes |-> {}]
            ELSE SubnodesFold([g |-> g1, nodes |-> {}],
                              RelationshipFields(FieldsOf(g1, id)), 1)

RECURSIVE CollectRequested(_, _, _)
CollectRequested(acc, filter, i) ==
    IF acc.g.pc = "error" \/ i > Len(filter) THEN acc
    ELSE IF ~DictHas(acc.g.nodes, filter[i])
    THEN [g |-> Raise(acc.g, "KeyError"), nodes |-> acc.nodes]
    ELSE LET r == get_subnodes(acc.g, DictGet(acc.g.nodes, filter[i]))
         IN CollectRequested([g |-> r.g, nodes |-> acc.nodes \cup r.nodes \cup {filter[i]}],
                             filter, i + 1)

\* Graph.derived_nodes
DerivedIds(g) == { id \in Range(NodeIds(g)) : g.heap[id].kind = "Derived" }

\* the derived nodes the last loop of get_writable_nodes adds
SelectedDerived(g, chosen, filter) ==
    { KeyOf(g, d) : d \in
        { id \in DerivedIds(g) :
            /\ KeyOf(g, id) \notin chosen
            /\ KeyOf(g, g.heap[id].derived_from) \in Range(filter)
            /\ \E i \in 1..Len(g.edges) :
                 \/ /\ KeyOf(g, g.edges[i].v.orig) = KeyOf(g, id)
                    /\ KeyOf(g, g.edges[i].v.dest) \in Range(filter)
                 \/ /\ KeyOf(g, g.edges[i].v.dest) = KeyOf(g, id)
                    /\ KeyOf(g, g.edges[i].v.orig) \in Range(filter) } }

\* Graph.concrete_nodes
ConcreteNodes(g) == DictKeys(g.nodes) \ g.meta_nodes

get_writable_nodes(g, filter) ==
    IF filter = <<>>
    THEN [g EXCEPT !.selection = [called |-> TRUE, filter |-> filter, ok |-> TRUE,
                                  result |-> ConcreteNodes(g)]]
    ELSE LET acc == CollectRequested([g |-> [g EXCEPT !.writable_nodes = {}], nodes |-> {}],
                                     filter, 1)
         IN IF acc.g.pc = "error"
            THEN [acc.g EXCEPT !.selection = [called |-> TRUE, filter |-> filter,
                                              ok |-> FALSE, result |-> {}]]
            ELSE [acc.g EXCEPT !.selection =
                    [called |-> TRUE, filter |-> filter, ok |-> TRUE,
                     result |-> acc.nodes \cup SelectedDerived(acc.g, acc.nodes, filter)]]

(***************************************************************************)
(* The actions of the run.                                                 *)
(***************************************************************************)
BuildStart ==
    /\ pc = "single"
    /\ Apply(BuildStartOp(G))
    /\ UNCHANGED <<truncVars, rowVars>>

InheritStep ==
    /\ pc = "inherit" /\ cur <= Len(work)
    /\ Apply(InheritStepOp(G))
    /\ UNCHANGED <<truncVars, rowVars>>

InheritDone ==
    /\ pc = "inherit" /\ cur > Len(work)
    /\ Apply(InheritDoneOp(G))
    /\ UNCHANGED <<truncVars, rowVars>>

AnyEdgeStep ==
    /\ pc = "any" /\ cur <= Len(work)
    /\ Apply(AnyEdgeStepOp(G))
    /\ UNCHANGED <<truncVars, rowVars>>

AnyEdgesDone ==
    /\ pc = "any" /\ cur > Len(work)
    /\ Apply(AnyEdgesDoneOp(G))
    /\ UNCHANGED <<truncVars, rowVars>>

\* a relationship field: its edges are added
FieldEdgeStep ==
    /\ pc = "fields" /\ cur <= Len(work)
    /\ fcur <= Len(CurFields(G))
    /\ IsRelationshipField(CurFields(G)[fcur].v)
    /\ Apply(FieldsStepOp(G))
    /\ UNCHANGED <<truncVars, rowVars>>

\* any other field: continue
FieldSkip ==
    /\ pc = "fields" /\ cur <= Len(work)
    /\ fcur <= Len(CurFields(G))
    /\ ~IsRelationshipField(CurFields(G)[fcur].v)
    /\ Apply(FieldsStepOp(G))
    /\ UNCHANGED <<truncVars, rowVars>>

\* the fields of the node are exhausted
NodeFieldsDone ==
    /\ pc = "fields" /\ cur <= Len(work)
    /\ fcur > Len(CurFields(G))
    /\ Apply(FieldsStepOp(G))
    /\ UNCHANGED <<truncVars, rowVars>>

FieldEdgesDone ==
    /\ pc = "fields" /\ cur > Len(work)
    /\ Apply(FieldEdgesDoneOp(G))
    /\ UNCHANGED <<truncVars, rowVars>>

SelfRefStep ==
    /\ pc = "selfref" /\ cur <= Len(edges)
    /\ Apply(SelfRefStepOp(G))
    /\ UNCHANGED <<truncVars, rowVars>>

SelfRefDone ==
    /\ pc = "selfref" /\ cur > Len(edges)
    /\ Apply(SelfRefDoneOp(G))
    /\ UNCHANGED <<truncVars, rowVars>>

SharedStep ==
    /\ pc = "shared" /\ cur <= Len(edges)
    /\ Apply(SharedStepOp(G))
    /\ UNCHANGED <<truncVars, rowVars>>

SharedDone ==
    /\ pc = "shared" /\ cur > Len(edges)
    /\ Apply(SharedDoneOp(G))
    /\ UNCHANGED <<truncVars, rowVars>>

\* the filter lists a caller may pass: keys of parsed nodes of the node set
FilterLists ==
    UNION { [1..n -> { KeyOf(G, id) : id \in Range(ParsedNodes(G)) }] : n \in 0..MaxFilter }

\* QueryBuilder.write_sql calls get_writable_nodes once, after build_graph
GetWritableNodes(filter) ==
    /\ pc = "done"
    /\ ~selection.called
    /\ Apply(get_writable_nodes(G, filter))
    /\ UNCHANGED <<truncVars, rowVars>>

Init == GraphInit /\ TruncIdle /\ RowsIdle

Next ==
    \/ \E p \in 1..Len(MultiPages) : AddMultiPage(p)
    \/ EndMultiPages
    \/ \E p \in 1..Len(SinglePages) : AddSinglePage(p)
    \/ BuildStart
    \/ InheritStep
    \/ InheritDone
    \/ AnyEdgeStep
    \/ AnyEdgesDone
    \/ FieldEdgeStep
    \/ FieldSkip
    \/ NodeFieldsDone
    \/ FieldEdgesDone
    \/ SelfRefStep
    \/ SelfRefDone
    \/ SharedStep
    \/ SharedDone
    \/ \E filter \in FilterLists : GetWritableNodes(filter)

Spec == Init /\ [][Next]_vars

(***************************************************************************)
(* Definitions used to state the properties.                               *)
(***************************************************************************)
\* node.fhir_fields as a read would return it now
FieldsNow(g, id) ==
    IF g.heap[id].kind = "Element" THEN ElementFields(id)
    ELSE IF g.heap[id].kind # "Parsed" THEN <<>>
    ELSE IF g.heap[id].fields.cached THEN g.heap[id].fields.val
    ELSE ComputeFhirFields(g.heap[id], id).val

RelationshipFieldsNow(g, id) == Range(RelationshipFields(FieldsNow(g, id)))

\* the edges that have the node with this key as an endpoint
EdgesAt(g, key) ==
    { i \in 1..Len(g.edges) :
        KeyOf(g, g.edges[i].v.orig) = key \/ KeyOf(g, g.edges[i].v.dest) = key }

PageOrders(s) == { p \in [1..Len(s) -> Range(s)] : Range(p) = Range(s) }

RECURSIVE LoadMulti(_, _, _)
LoadMulti(g, ms, i) ==
    IF g.pc = "error" \/ i > Len(ms) THEN g ELSE LoadMulti(AddMultiPageOp(g, ms[i]), ms, i + 1)
RECURSIVE LoadSingle(_, _, _)
LoadSingle(g, ss, i) ==
    IF g.pc = "error" \/ i > Len(ss) THEN g ELSE LoadSingle(AddSinglePageOp(g, ss[i]), ss, i + 1)

\* the whole run on the pages ms and ss, read in that order
RunOn(ms, ss) ==
    LET g1 == LoadMulti(EmptyGraph, ms, 1)
        g2 == IF g1.pc = "error" THEN g1 ELSE LoadSingle([g1 EXCEPT !.pc = "single"], ss, 1)
    IN IF g2.pc = "error" THEN g2 ELSE RunBuild(BuildStartOp(g2))

\* what the disambiguation passes decided: the flagged edges and the columns
FlagView(g) ==
    [self_referencing |-> { g.edges[i].k : i \in { j \in 1..Len(g.edges) :
                                g.edges[j].v.self_referencing_back_reference } },
     shares |-> { g.edges[i].k : i \in { j \in 1..Len(g.edges) :
                                g.edges[j].v.shares_references } },
     columns |-> { <<g.edges[i].k, column_name(g, g.edges[i].v)>> : i \in 1..Len(g.edges) }]

ManyValuedEdge(e) == e.field.kind # "None" /\ is_many_to_many(e.field)

\* the many-valued edges with the origin and the destination of edge i
SharingGroup(i) ==
    { j \in 1..Len(edges) : /\ ManyValuedEdge(edges[j].v)
                            /\ edges[j].k[1] = edges[i].k[1]
                            /\ edges[j].k[3] = edges[i].k[3] }

\* the untruncated column name of edge i fits the identifier limit
ColumnFits(i) ==
    /\ base_column_name(G, edges[i].v).ok
    /\ Len(to_snake_case(base_column_name(G, edges[i].v).name \o S_id)) <= MaxNameLength

\* the dotted targets of the exclusive relationship fields of a node
DottedTargets(g, key) ==
    IF ~DictHas(g.nodes, key) THEN {}
    ELSE { f.targets[1] : f \in { h \in RelationshipFieldsNow(g, DictGet(g.nodes, key)) :
                                    h.kind = "Exclusive" /\ HasChar(h.targets[1], ".") } }

\* the least set of keys that contains S and is closed under DottedTargets
RECURSIVE Reachable(_, _)
Reachable(g, S) ==
    LET S2 == S \cup UNION { DottedTargets(g, k) : k \in S }
    IN IF S2 = S THEN S ELSE Reachable(g, S2)

\* the concrete parsed nodes of the node set, as a set
ConcreteParsedSet == Range(ConcreteParsedNodes(G))

(***************************************************************************)
(* C1: after build_graph, the derived node of every polymorphic reference  *)
(* field of a concrete parsed entity is an endpoint of exactly (number of  *)
(* distinct targets + 1) edges, the owner being a target or not.           *)
(***************************************************************************)
C1_DerivedNodeEdges ==
    pc = "done" =>
        \A id \in ConcreteParsedSet : \A f \in RelationshipFieldsNow(G, id) :
            is_polymorphic(f) =>
                /\ DictHas(nodes, KeyOf(G, id) \o Dot \o f.key)
                /\ NodeOf(G, KeyOf(G, id) \o Dot \o f.key).kind = "Derived"
                /\ Cardinality(EdgesAt(G, KeyOf(G, id) \o Dot \o f.key))
                     = Cardinality(Range(f.targets)) + 1

(***************************************************************************)
(* C2: for a non-empty filter list, a derived node of a requested resource *)
(* that is not among the field's targets is selected if and only if one of *)
(* its edges connects it to another resource, different from the one it    *)
(* was derived from, that is also in the filter list.                      *)
(***************************************************************************)
C2_JunctionSelection ==
    (selection.called /\ selection.ok /\ selection.filter # <<>>) =>
        \A d \in DerivedIds(G) :
            (/\ KeyOf(G, heap[d].derived_from) \in Range(selection.filter)
             /\ KeyOf(G, d) \notin Range(selection.filter)
             /\ \A i \in EdgesAt(G, KeyOf(G, d)) :
                   KeyOf(G, heap[d].derived_from) \notin Range(edges[i].v.field.targets))
            => (KeyOf(G, d) \in selection.result
                <=> \E i \in EdgesAt(G, KeyOf(G, d)) :
                      \E other \in {KeyOf(G, edges[i].v.orig), KeyOf(G, edges[i].v.dest)} :
                         /\ other # KeyOf(G, d)
                         /\ other # KeyOf(G, heap[d].derived_from)
                         /\ other \in Range(selection.filter))

(***************************************************************************)
(* C3: the edges flagged self_referencing_back_reference, the edges        *)
(* flagged shares_references and the column names after build_graph are    *)
(* the same for every order in which the same pages are read.              *)
(***************************************************************************)
C3_ReproducibleFlags ==
    (pc = "done" /\ ~selection.called) =>
        \A ms \in PageOrders(multi_added) : \A ss \in PageOrders(single_added) :
            RunOn(ms, ss).pc = "done" => FlagView(RunOn(ms, ss)) = FlagView(G)

(***************************************************************************)
(* C5 as claimed: after build_graph, when two or more many-valued edges    *)
(* have the same origin and destination and none is a self-referencing     *)
(* back-reference, all of them have shares_references and their column     *)
(* names are pairwise distinct.                                            *)
(***************************************************************************)
C5_SharedReferencesDistinct ==
    (pc = "done" /\ ~selection.called) =>
        \A i \in 1..Len(edges) :
            (/\ ManyValuedEdge(edges[i].v)
             /\ Cardinality(SharingGroup(i)) >= 2
             /\ \A j \in SharingGroup(i) : ~edges[j].v.self_referencing_back_reference)
            => /\ \A j \in SharingGroup(i) : edges[j].v.shares_references
               /\ \A j, k \in SharingGroup(i) :
                     j # k => /\ column_name(G, edges[j].v).ok
                              /\ column_name(G, edges[k].v).ok
                              /\ column_name(G, edges[j].v).name # column_name(G, edges[k].v).name

(***************************************************************************)
(* C5 as amended: under the same condition all of them have                *)
(* shares_references, and the column names of any two of them whose        *)
(* field-qualified names fit the 63-character limit are distinct.          *)
(***************************************************************************)
C5_SharedReferencesAmended ==
    (pc = "done" /\ ~selection.called) =>
        \A i \in 1..Len(edges) :
            (/\ ManyValuedEdge(edges[i].v)
             /\ Cardinality(SharingGroup(i)) >= 2
             /\ \A j \in SharingGroup(i) : ~edges[j].v.self_referencing_back_reference)
            => /\ \A j \in SharingGroup(i) : edges[j].v.shares_references
               /\ \A j, k \in SharingGroup(i) :
                     (j # k /\ ColumnFits(j) /\ ColumnFits(k))
                     => /\ column_name(G, edges[j].v).ok
                        /\ column_name(G, edges[k].v).ok
                        /\ column_name(G, edges[j].v).name # column_name(G, edges[k].v).name

\* three many-valued relations of one entity to itself, flagged
C5_Witness ==
    /\ pc = "done" /\ ~selection.called
    /\ \E i, j \in 1..Len(edges) :
          /\ i # j
          /\ Cardinality(SharingGroup(i)) >= 3
          /\ j \in SharingGroup(i)
          /\ edges[i].k[1] = edges[i].k[3]
          /\ edges[i].v.shares_references /\ edges[j].v.shares_references
          /\ ColumnFits(i) /\ ColumnFits(j)

(***************************************************************************)
(* C6: a node registered under a key is never replaced by a later          *)
(* insertion under that key, by add_node or by build_graph.                *)
(***************************************************************************)
C6_NodeNeverReplaced ==
    [][\A k \in DictKeys(nodes) : DictHas(nodes', k) /\ DictGet(nodes', k) = DictGet(nodes, k)]_vars

C8_MissingDestinationFatal ==
    pc \in {"selfref", "shared", "done"} =>
        \A id \in Range(ParsedNodes(G)) : \A f \in RelationshipFieldsNow(G, id) :
            \A t \in Range(f.targets) : DictHas(nodes, t)

(***************************************************************************)
(* C8 as amended: build_graph never reaches its disambiguation passes or   *)
(* its end when a relationship field of a concrete parsed entity (one that *)
(* is not a meta node) names a destination that is not in the node set.    *)
(***************************************************************************)
C8_MissingDestinationAmended ==
    pc \in {"selfref", "shared", "done"} =>
        \A id \in ConcreteParsedSet : \A f \in RelationshipFieldsNow(G, id) :
            \A t \in Range(f.targets) : DictHas(nodes, t)

\* the third loop met a field of a concrete entity with a missing destination
C8_Witness ==
    /\ pc = "error" /\ err = "KeyError"
    /\ Len(edges) > 0
    /\ cur <= Len(work)
    /\ fcur <= Len(FieldsNow(G, work[cur]))
    /\ IsRelationshipField(FieldsNow(G, work[cur])[fcur].v)
    /\ \E t \in Range(FieldsNow(G, work[cur])[fcur].v.targets) : ~DictHas(nodes, t)

(***************************************************************************)
(* C9: during the inheritance pass, once add_inherited_fields has run for  *)
(* a parsed node, running it again for that node, or for any other parsed  *)
(* node (a child runs it for its parents), leaves the node's resolved      *)
(* field set as it was; every resolved field originates at the node; and   *)
(* a cached field set is the resolved field set.                           *)
(***************************************************************************)
ResolvedFields(g, id) == ComputeFhirFields(g.heap[id], id).val

C9_InheritanceIdempotent ==
    pc = "inherit" =>
        \A i \in 1..(cur - 1) : \A b \in Range(work) :
            LET a == work[i]
                g2 == add_inherited_fields(G, b, {})
                resolved == ResolvedFields(g2, a)
            IN g2.pc # "error" =>
                  /\ resolved = ResolvedFields(G, a)
                  /\ \A n \in 1..Len(resolved) : resolved[n].v.orig = a
                  /\ g2.heap[a].fields.cached => g2.heap[a].fields.val = resolved

\* a parent that inherits itself was resolved on its own and again for a child
C9_Witness ==
    /\ pc = "inherit"
    /\ \E i, j \in 1..Len(work) :
          /\ i < cur /\ j < cur /\ i # j
          /\ heap[work[i]].inherited # <<>>
          /\ heap[work[i]].fields.cached
          /\ DictHas(inherited_field_keys(heap[work[j]]), KeyOf(G, work[i]))
          /\ heap[work[j]].inherited # <<>>

(***************************************************************************)
(* C10: in every state, the edge collection holds at most one edge per     *)
(* triple (origin key, field key or '', destination key) and every edge is *)
(* stored under its own triple.                                            *)
(***************************************************************************)
C10_EdgeIdentity ==
    /\ \A i, j \in 1..Len(edges) : edges[i].k = edges[j].k => i = j
    /\ \A i \in 1..Len(edges) : edges[i].k = EdgeKey(G, edges[i].v)

\* an edge was stored under a triple that was already taken
C10_Witness ==
    /\ pc = "done"
    /\ \E id \in ConcreteParsedSet : \E f \in RelationshipFieldsNow(G, id) :
          /\ is_polymorphic(f) /\ is_many_to_many(f)
          /\ KeyOf(G, id) \in Range(f.targets)
          /\ DictHas(edges, <<KeyOf(G, id) \o Dot \o f.key, f.key, KeyOf(G, id)>>)

(***************************************************************************)
(* C11: truncate_database_name returns an identifier of at most 63         *)
(* characters unchanged, without raising; and applied to a value it        *)
(* returned it returns that value.                                         *)
(***************************************************************************)
C11_TruncationNoOp ==
    /\ Len(t_full) <= MaxNameLength =>
          /\ t_pc # "raised"
          /\ t_pc = "done" => t_name = t_full
    /\ t_pc = "done" =>
          truncate_database_name(t_name) = [ok |-> TRUE, name |-> t_name]

\* a long identifier was shortened and returned
C11_Witness ==
    /\ t_pc = "done"
    /\ Len(t_full) > MaxNameLength
    /\ t_name # t_full
    /\ truncate_database_name(t_name).ok

(***************************************************************************)
(* C17: after k iterations of the loop of truncate_database_name, the      *)
(* segments collapsed to their first character are the third-to-last one   *)
(* and the k - 1 segments before it; every other segment is as given.      *)
(***************************************************************************)
C17_TruncationOrder ==
    (t_pc \in {"loop", "done"} /\ t_idx < -3) =>
        LET orig == Split(t_full)
            n == Len(orig)
            k == -3 - t_idx
        IN /\ Len(t_parts) = n
           /\ \A i \in 1..n :
                 t_parts[i] = IF i <= n - 2 /\ i > n - 2 - k
                              THEN <<orig[i][1]>> ELSE orig[i]

\* the edges, other than edge i, with the origin and destination of edge i
PairPeers(i) ==
    { j \in 1..Len(edges) : /\ j # i
                            /\ edges[j].k[1] = edges[i].k[1]
                            /\ edges[j].k[3] = edges[i].k[3] }

InSharedPass(e) ==
    /\ e.field.kind = "None" \/ is_many_to_many(e.field)
    /\ ~e.self_referencing_back_reference

C13_SingleTargetReference ==
    /\ pc \in {"selfref", "shared", "done"} =>
          \A id \in ConcreteParsedSet : \A f \in RelationshipFieldsNow(G, id) :
              (f.kind = "Reference" /\ Len(f.targets) = 1 /\ f.ord[2] # "*") =>
                  /\ DictHas(edges, <<KeyOf(G, id), f.key, f.targets[1]>>)
                  /\ ~DictHas(nodes, KeyOf(G, id) \o Dot \o f.key)
    /\ err # "ColumnNameError"

\* the foreign-key column an edge has while Phase 4 visits it (no flag set yet)
UnflaggedColumn(e) ==
    column_name(G, [e EXCEPT !.self_referencing_back_reference = FALSE,
                             !.shares_references = FALSE])

\* edges i and j are in the same Phase 4 group
SameTriplet(i, j) ==
    /\ edges[i].k[1] = edges[j].k[1]
    /\ edges[i].k[3] = edges[j].k[3]
    /\ UnflaggedColumn(edges[i].v) = UnflaggedColumn(edges[j].v)

\* C14: once Phase 4 has run, for every pair of edges of one group
\* (originating key, column name, destination key) of which exactly one is a
\* back reference, the back reference carries self_referencing_back_reference,
\* and no edge that is not a back reference carries it.
C14_SelfReferenceMarking ==
    (pc \in {"shared", "done"} /\ err = "") =>
        /\ \A i, j \in 1..Len(edges) :
              ( /\ i # j
                /\ SameTriplet(i, j)
                /\ is_back_reference(G, edges[i].v)
                /\ ~is_back_reference(G, edges[j].v) )
              => edges[i].v.self_referencing_back_reference
        /\ \A i \in 1..Len(edges) :
              edges[i].v.self_referencing_back_reference => is_back_reference(G, edges[i].v)

\* a variant of add_foreign_key that puts the column on the destination's table
add_foreign_key_Destination(g, e) ==
    [table |-> key_to_database_name(KeyOf(g, e.dest)), column |-> column_name(g, e)]
\* the table that receives the foreign-key column of edge e, and the column
add_foreign_key(g, e) ==
    [table |-> key_to_database_name(KeyOf(g, e.orig)), column |-> column_name(g, e)]

\* the exclusive relationship fields of the concrete parsed entity id
ExclusiveFieldsNow(id) == { f \in RelationshipFieldsNow(G, id) : f.kind = "Exclusive" }

\* C15: after the third pass, an exclusive field with maximum one has an edge
\* owner -> target whose column goes to the owner's table, and an exclusive
\* field with maximum many has an edge target -> owner whose column goes to the
\* target's table.
C15_ExclusiveDirection ==
    pc \in {"selfref", "shared", "done"} =>
        \A id \in ConcreteParsedSet : \A f \in ExclusiveFieldsNow(id) :
            LET owner == KeyOf(G, id)
                target == f.targets[1]
            IN /\ is_max_one(f) =>
                    /\ DictHas(edges, <<owner, f.key, target>>)
                    /\ LET e == DictGet(edges, <<owner, f.key, target>>)
                       IN /\ KeyOf(G, e.orig) = owner /\ KeyOf(G, e.dest) = target
                          /\ add_foreign_key(G, e).table = key_to_database_name(owner)
               /\ is_many_to_many(f) =>
                    /\ DictHas(edges, <<target, f.key, owner>>)
                    /\ LET e == DictGet(edges, <<target, f.key, owner>>)
                       IN /\ KeyOf(G, e.orig) = target /\ KeyOf(G, e.dest) = owner
                          /\ add_foreign_key(G, e).table = key_to_database_name(target)

\* both directions occur between different entities in a completed build
C15_Witness ==
    /\ pc = "done" /\ err = ""
    /\ \E id \in ConcreteParsedSet : \E f \in ExclusiveFieldsNow(id) :
          /\ is_max_one(f) /\ f.targets[1] # KeyOf(G, id)
          /\ DictHas(edges, <<KeyOf(G, id), f.key, f.targets[1]>>)
    /\ \E id \in ConcreteParsedSet : \E f \in ExclusiveFieldsNow(id) :
          /\ is_many_to_many(f) /\ f.targets[1] # KeyOf(G, id)
          /\ DictHas(edges, <<f.targets[1], f.key, KeyOf(G, id)>>)

\* the lines of r_rows that open a bracket and declare a field
DeclaredOpeners == { i \in 1..Len(r_rows) : starts_subnode(r_rows[i]) /\ RowBool(r_rows[i]) }

\* C16: for every row sequence with balanced brackets, bare opening lines
\* included, the loop of ResourceText.nodes never pops or reads an empty
\* stack, every entity holds only rows declared for itself, and the result is
\* the root plus one entity per declared subnode.
C16_StackDiscipline ==
    /\ r_pc # "raised"
    /\ r_pc \in {"loop", "done"} =>
          /\ (r_i <= Len(r_rows) /\ ~ends_subnode(r_rows[r_i]) /\ RowBool(r_rows[r_i]))
                => r_st.tiers # <<>>
          /\ \A n \in 1..Len(r_st.nodes) : \A k \in 1..Len(r_st.nodes[n]) :
                r_st.nodes[n][k].key = r_st.nodes[n][1].key
    /\ r_pc = "done" => Len(r_st.nodes) = 1 + Cardinality(DeclaredOpeners)

\* C18: after a completed build, two distinct edges with the same originating
\* node have different foreign-key column names.
C18_UniqueColumns ==
    (pc = "done" /\ err = "") =>
        \A i, j \in 1..Len(edges) :
            (i # j /\ edges[i].v.orig = edges[j].v.orig)
                => column_name(G, edges[i].v) # column_name(G, edges[j].v)

\* C19: after a completed build, every relationship field of every concrete
\* parsed entity is the originating field (same owning entity, same field key)
\* of at least one edge.
C19_NoRelationshipLost ==
    (pc = "done" /\ err = "") =>
        \A id \in ConcreteParsedSet : \A f \in RelationshipFieldsNow(G, id) :
            \E i \in 1..Len(edges) :
                /\ edges[i].v.field.kind # "None"
                /\ edges[i].v.field.key = f.key
                /\ KeyOf(G, edges[i].v.field.orig) = KeyOf(G, id)

\* C20: the first pass of build_graph ends with a result or with an error the
\* program reports itself; it never runs into a recursion without end, also
\* when an entity names itself as parent or two entities name each other.
C20_InheritanceTerminates == err # "RecursionError"

====
